---- MODULE Spec2Model ----
(***************************************************************************)
(* d2q9-bgk lattice Boltzmann driver (src/d2q9-bgk.c).                     *)
(*                                                                         *)
(* The state is main's: the parameters, the obstacle mask, the two         *)
(* structure-of-arrays buffers grid and tmp_grid, the two role pointers,   *)
(* av_vels, the loop counter tt and the position of main (pc).             *)
(*                                                                         *)
(* float values are modelled as exact rationals <<numerator, denominator>> *)
(* (rounding is not modelled).  sqrtf is not computable on rationals: a    *)
(* value sqrtf(r) is carried as its radicand r, and the quotient           *)
(* tot_u / tot_cells as the record of the summed radicands and the count.  *)
(***************************************************************************)
EXTENDS Integers, Sequences, FiniteSets, TLC

\* ------------------------------------------------------------------ bounds
MaxNx == 3
MaxNy == 3
MaxIters == 2
\* lines of an obstacle file, allocations that fail in one run
MaxLines == 2
MaxFailures == 1
\* cells of the grids whose cell loop is run in every order
MaxCells == 6

NSPEEDS == 9

\* ------------------------------------------------------- exact rationals
Abs(n) == IF n < 0 THEN -n ELSE n

RECURSIVE GCD(_, _)
GCD(a, b) == IF b = 0 THEN a ELSE GCD(b, a % b)

\* <<n, d>> with d > 0 in lowest terms; <<0, 0>> is the result of x / 0
NaN == <<0, 0>>
Norm(n, d) ==
  IF d = 0 THEN NaN
  ELSE LET g == GCD(Abs(n), Abs(d))
           s == IF d < 0 THEN -1 ELSE 1
       IN  <<(s * n) \div g, (s * d) \div g>>
R(n) == <<n, 1>>
RAdd(a, b) ==
  IF a[2] = 0 \/ b[2] = 0 THEN NaN
  ELSE IF a[2] = 1 /\ b[2] = 1 THEN <<a[1] + b[1], 1>>
  ELSE LET g == GCD(a[2], b[2])
       IN  Norm(a[1] * (b[2] \div g) + b[1] * (a[2] \div g), (a[2] \div g) * b[2])
RNeg(a) == <<-a[1], a[2]>>
RSub(a, b) == RAdd(a, RNeg(b))
RMul(a, b) ==
  IF a[2] = 0 \/ b[2] = 0 THEN NaN
  ELSE IF a[2] = 1 /\ b[2] = 1 THEN <<a[1] * b[1], 1>>
  ELSE LET g1 == GCD(Abs(a[1]), b[2])
           g2 == GCD(Abs(b[1]), a[2])
       IN  <<(a[1] \div g1) * (b[1] \div g2), (a[2] \div g2) * (b[2] \div g1)>>
RDiv(a, b) ==
  IF a[2] = 0 \/ b[2] = 0 \/ b[1] = 0 THEN NaN
  ELSE RMul(a, IF b[1] < 0 THEN <<-b[2], -b[1]>> ELSE <<b[2], b[1]>>)
RGt0(a) == a[2] # 0 /\ a[1] > 0
Zero == R(0)

\* ------------------------------------------------------------ variables
VARIABLES
  params,        \* t_param: nx, ny, maxIters, reynolds_dim, density, accel, omega
  obstacles,     \* int* obstacles: [0..nx*ny-1 -> {0,1}]
  mem,           \* the two soa objects of main: mem.grid, mem.tmp_grid
  grid_ptr,      \* soa* grid_ptr     (which object is current)
  tmp_grid_ptr,  \* soa* tmp_grid_ptr (which object is scratch)
  av_vels,       \* float* av_vels: [0..maxIters-1 -> value]
  tt,            \* loop counter of main
  pc,            \* position of main
  ret,           \* value returned by the last fusion call
  d_equ,         \* content of fusion's local array d_equ in the last call
  streamed,      \* tmp_grid as it stands after lines 571-579 of the last call
  hist,          \* the current buffer at the last three loop heads, newest last
  log,           \* calls and av_vels accesses, in order
  out,           \* what calc_reynolds returned and write_values wrote
  oob,           \* an index outside [0, nx*ny) has been used, or a null pointer
  file,          \* the obstacle file: its lines, each the values on the line
  fp,            \* the values of the obstacle file that fscanf has not consumed
  null,          \* the allocations that returned NULL
  status,        \* how initialise ended: exit code and the diagnostic of die
  twin,          \* the first of two runs whose masks differ by a shift, once it is over
  loop           \* fusion's cell loop: cells not yet visited, tot_cells, tot_u, tmp_grid on entry

vars == <<params, obstacles, mem, grid_ptr, tmp_grid_ptr, av_vels, tt, pc,
          ret, d_equ, streamed, hist, log, out, oob, file, fp, null, status, twin, loop>>

\* ----------------------------------------------------------- geometry
N == params.nx * params.ny
Cells == 0 .. (N - 1)
Dirs == 0 .. (NSPEEDS - 1)
Col(c) == c % params.nx
Row(c) == c \div params.nx
InRange(i) == i >= 0 /\ i < N

cur == mem[grid_ptr]
scratch == mem[tmp_grid_ptr]

\* ------------------------------------------------------------ inputs
Densities == {R(144)}
Accels == {R(0), <<1, 4>>, R(-1)}
Omegas == {<<1, 2>>}
ReynoldsDims == {128}

\* what an uninitialised float may hold
GarbageFloats == {R(0), R(7)}

\* initialise, lines 888-909: w0, w1, w2 and the value stored per speed
InitSpeed(density, k) ==
  IF k = 0 THEN RDiv(RMul(density, R(4)), R(9))
  ELSE IF k <= 4 THEN RDiv(density, R(9))
  ELSE RDiv(density, R(36))

Uniform(n, density) == [k \in 0 .. 8 |-> [c \in 0 .. (n - 1) |-> InitSpeed(density, k)]]

\* a distribution with pairwise distinct positive entries
Tagged(n) == [k \in 0 .. 8 |-> [c \in 0 .. (n - 1) |-> R(9 * c + k + 1)]]

Filled(n, g) == [k \in 0 .. 8 |-> [c \in 0 .. (n - 1) |-> g]]

\* obstacle masks: no cell, one cell or every cell blocked
Masks(n) ==
  { [c \in 0 .. (n - 1) |-> IF c \in S THEN 1 ELSE 0] :
      S \in { {} , 0 .. (n - 1) } \cup { {b} : b \in 0 .. (n - 1) } }

\* ------------------------------------------------------ accelerate_flow
\* lines 240-241
AccelW1 == RDiv(RMul(params.density, params.accel), R(9))
AccelW2 == RDiv(RMul(params.density, params.accel), R(36))

\* the row above the one line 244 names
AccelRow_Top == params.ny - 1

\* line 244 and the index ii + jj*params.nx of lines 251-263
AccelRow == params.ny - 2
AccelIdx(ii) == ii + AccelRow * params.nx

\* the guard without its test of speed 3
AccelGuard_NoWest(g, idx) ==
  /\ obstacles[idx] = 0
  /\ RGt0(RSub(g[6][idx], AccelW2))
  /\ RGt0(RSub(g[7][idx], AccelW2))

\* lines 251-254
AccelGuard(g, idx) ==
  /\ obstacles[idx] = 0
  /\ RGt0(RSub(g[3][idx], AccelW1))
  /\ RGt0(RSub(g[6][idx], AccelW2))
  /\ RGt0(RSub(g[7][idx], AccelW2))

\* lines 257-263
AccelCell(g, k, idx) ==
  IF k \in {1} THEN RAdd(g[k][idx], AccelW1)
  ELSE IF k \in {5, 8} THEN RAdd(g[k][idx], AccelW2)
  ELSE IF k \in {3} THEN RSub(g[k][idx], AccelW1)
  ELSE IF k \in {6, 7} THEN RSub(g[k][idx], AccelW2)
  ELSE g[k][idx]

\* the loop of lines 246-265, every index in range
AccelBuf(g) ==
  LET row == { AccelIdx(ii) : ii \in 0 .. (params.nx - 1) }
  IN  [k \in Dirs |-> [c \in Cells |->
        IF c \in row /\ AccelGuard(g, c) THEN AccelCell(g, k, c) ELSE g[k][c]]]

AccelInRange == \A ii \in 0 .. (params.nx - 1) : InRange(AccelIdx(ii))

\* ---------------------------------------------------------------- fusion
\* lines 563-566
y_n(jj) == (jj + 1) % params.ny
x_e(ii) == (ii + 1) % params.nx
\* the southern neighbour without the wrap at row 0
y_s_NoWrap(jj) == IF jj = 0 THEN jj ELSE jj - 1
y_s(jj) == IF jj = 0 THEN jj + params.ny - 1 ELSE jj - 1
\* the eastern neighbour taken for the western one
x_w_East(ii) == (ii + 1) % params.nx
x_w(ii) == IF ii = 0 THEN ii + params.nx - 1 ELSE ii - 1

\* lines 571-579: the index of grid read for speed k of cell (ii, jj)
SrcIdx(k, ii, jj) ==
  CASE k = 0 -> ii + jj * params.nx
    [] k = 1 -> x_w(ii) + jj * params.nx
    [] k = 2 -> ii + y_s(jj) * params.nx
    [] k = 3 -> x_e(ii) + jj * params.nx
    [] k = 4 -> ii + y_n(jj) * params.nx
    [] k = 5 -> x_w(ii) + y_s(jj) * params.nx
    [] k = 6 -> x_e(ii) + y_s(jj) * params.nx
    [] k = 7 -> x_e(ii) + y_n(jj) * params.nx
    [] k = 8 -> x_w(ii) + y_n(jj) * params.nx

\* lines 571-579 over the whole loop: tmp_grid after the propagate stores
Propagate(g) ==
  [k \in Dirs |-> [c \in Cells |-> g[k][SrcIdx(k, Col(c), Row(c))]]]

\* the diagonals mirrored about the wrong axis
Mirror_Diag(k) ==
  CASE k = 0 -> 0
    [] k = 1 -> 3
    [] k = 2 -> 4
    [] k = 3 -> 1
    [] k = 4 -> 2
    [] k = 5 -> 8
    [] k = 6 -> 7
    [] k = 7 -> 6
    [] k = 8 -> 5

\* lines 592-607: the speed of the streamed cell stored into speed k
\* (s0 is left as streamed)
Mirror(k) ==
  CASE k = 0 -> 0
    [] k = 1 -> 3
    [] k = 2 -> 4
    [] k = 3 -> 1
    [] k = 4 -> 2
    [] k = 5 -> 7
    [] k = 6 -> 8
    [] k = 7 -> 5
    [] k = 8 -> 6

\* lines 664-673: d_equ is declared and never assigned (the nine stores of 1.0f
\* name d, not d_equ), so what lines 704-745 read from it is indeterminate;
\* all ones is its content when those stores reach it.
DEquSet == { [k \in Dirs |-> R(1)], [k \in Dirs |-> R(0)] }

\* lines 704-705 (and the eight like it): outVal
Relax(t, de) == RAdd(t, RMul(params.omega, RSub(de, t)))

\* lines 584-747: tmp_grid after the rebound or the relaxation of every cell
Collide(t, de) ==
  [k \in Dirs |-> [c \in Cells |->
     IF obstacles[c] # 0 THEN t[Mirror(k)][c] ELSE Relax(t[k][c], de[k])]]

Sum9(g, c) ==
  RAdd(g[0][c], RAdd(g[1][c], RAdd(g[2][c], RAdd(g[3][c], RAdd(g[4][c],
  RAdd(g[5][c], RAdd(g[6][c], RAdd(g[7][c], g[8][c]))))))))

MomX(g, c) ==
  RSub(RAdd(g[1][c], RAdd(g[5][c], g[8][c])),
       RAdd(g[3][c], RAdd(g[6][c], g[7][c])))

MomY(g, c) ==
  RSub(RAdd(g[2][c], RAdd(g[5][c], g[6][c])),
       RAdd(g[4][c], RAdd(g[7][c], g[8][c])))

\* the velocity taken along the axes only
FusionCellU_Axes(g, c) ==
  LET av_local_density == Sum9(g, c)
      av_u_x == RDiv(RSub(g[1][c], g[3][c]), av_local_density)
      av_u_y == RDiv(RSub(g[2][c], g[4][c]), av_local_density)
  IN  RAdd(RMul(av_u_x, av_u_x), RMul(av_u_y, av_u_y))

\* lines 701-771: the argument of sqrtf for a fluid cell, computed from the
\* relaxed values just stored in tmp_grid and their sum av_local_density
FusionCellU(g, c) ==
  LET av_local_density == Sum9(g, c)
      av_u_x == RDiv(MomX(g, c), av_local_density)
      av_u_y == RDiv(MomY(g, c), av_local_density)
  IN  RAdd(RMul(av_u_x, av_u_x), RMul(av_u_y, av_u_y))

\* lines 541-545, 771-773 over the loop of lines 554-778, in row-major order
RECURSIVE FusionTotU(_, _)
FusionTotU(g, c) ==
  IF c >= N THEN << >>
  ELSE IF obstacles[c] # 0 THEN FusionTotU(g, c + 1)
  ELSE << FusionCellU(g, c) >> \o FusionTotU(g, c + 1)

\* line 783
FusionRet(g) ==
  LET tot_u == FusionTotU(g, 0)
  IN  [tot_u |-> tot_u, tot_cells |-> Len(tot_u)]

\* ----------------------------------------------------------- av_velocity
\* lines 449-473
CellU(g, c) ==
  LET local_density == Sum9(g, c)
      u_x == RDiv(MomX(g, c), local_density)
      u_y == RDiv(MomY(g, c), local_density)
  IN  RAdd(RMul(u_x, u_x), RMul(u_y, u_y))

RECURSIVE AvTotU(_, _)
AvTotU(g, c) ==
  IF c >= N THEN << >>
  ELSE IF obstacles[c] # 0 THEN AvTotU(g, c + 1)
  ELSE << CellU(g, c) >> \o AvTotU(g, c + 1)

av_velocity(g) ==
  LET tot_u == AvTotU(g, 0)
  IN  [tot_u |-> tot_u, tot_cells |-> Len(tot_u)]

\* --------------------------------------------- calc_reynolds, write_values
\* line 992
Viscosity == RMul(<<1, 6>>, RSub(RDiv(R(2), params.omega), R(1)))

\* lines 990-995: the product is carried as its three factors
calc_reynolds(g) ==
  [av |-> av_velocity(g), reynolds_dim |-> params.reynolds_dim, viscosity |-> Viscosity]

\* line 1076: the index of obstacles read for the printed flag
FlagIdx(ii, jj) == ii * params.nx + jj

\* lines 1038-1076: the line printed for cell (ii, jj); u is carried as the
\* argument of sqrtf; junk is what a read outside obstacles yields
FinalLine(g, ii, jj, junk) ==
  LET c == ii + jj * params.nx
      c_sq == <<1, 3>>
      flag == IF InRange(FlagIdx(ii, jj)) THEN obstacles[FlagIdx(ii, jj)] ELSE junk
  IN  IF obstacles[c] # 0
      THEN [ii |-> ii, jj |-> jj, u_x |-> Zero, u_y |-> Zero, u |-> Zero,
            pressure |-> RMul(params.density, c_sq), flag |-> flag]
      ELSE LET local_density == Sum9(g, c)
               u_x == RDiv(MomX(g, c), local_density)
               u_y == RDiv(MomY(g, c), local_density)
           IN  [ii |-> ii, jj |-> jj, u_x |-> u_x, u_y |-> u_y,
                u |-> RAdd(RMul(u_x, u_x), RMul(u_y, u_y)),
                pressure |-> RMul(local_density, c_sq), flag |-> flag]

\* lines 1033-1078: one line per cell, row-major
FinalState(g, junk) ==
  [n \in 1 .. N |-> FinalLine(g, Col(n - 1), Row(n - 1), junk)]

FlagInRange == \A c \in Cells : InRange(FlagIdx(Col(c), Row(c)))

\* lines 1089-1092: the indices ii of av_vels printed, in order
AvLoop == [n \in 1 .. params.maxIters |-> n - 1]

\* --------------------------------------------------------------- main
\* one iteration too many
LoopCond_Le == tt <= params.maxIters

\* line 186: the loop condition
LoopCond == tt < params.maxIters

\* a float object that has not been assigned (its content is never read)
NoRet == [tot_u |-> << >>, tot_cells |-> 0]
NoOut == [reynolds |-> [av |-> NoRet, reynolds_dim |-> 0, viscosity |-> Zero],
          reported |-> "none", final_state |-> << >>, av_file |-> << >>]

\* fusion is not running
NoLoop == [todo |-> {}, tot_cells |-> 0, tot_u |-> << >>, entry |-> << >>]

\* no run of the program has come before this one
NoTwin == [run |-> 1, s |-> 0, hist |-> << >>, av_vels |-> << >>]

\* an obstacle file that lists the blocked cells of mask from cell c on, one
\* line 'x y 1' per cell
RECURSIVE Listing(_, _, _)
Listing(mask, nx, c) ==
  IF c \notin DOMAIN mask THEN << >>
  ELSE (IF mask[c] # 0 THEN << <<c % nx, c \div nx, 1>> >> ELSE << >>)
         \o Listing(mask, nx, c + 1)

\* initialise has not ended; line 965; die, lines 1099-1105
Running == [code |-> "none", diag |-> ""]
Returned == [code |-> "EXIT_SUCCESS", diag |-> ""]
die(message) == [code |-> "EXIT_FAILURE", diag |-> message]

\* the distribution in grid when the loop starts: the uniform equilibrium of
\* initialise (lines 887-909), or a given one for the kernel on its own
StartGrid(dist, n, density) ==
  IF dist = "initialise" THEN Uniform(n, density) ELSE Tagged(n)

\* the state main is in when initialise has returned and lines 184-186 have
\* run, for the distributions dists that grid may start with
InitWith(dists) ==
  \E dist \in dists, nx \in 1 .. MaxNx, ny \in 1 .. MaxNy, mi \in 0 .. MaxIters,
     rd \in ReynoldsDims, de \in Densities, ac \in Accels, om \in Omegas :
    \E mask \in Masks(nx * ny), junk \in GarbageFloats :
      /\ params = [nx |-> nx, ny |-> ny, maxIters |-> mi, reynolds_dim |-> rd,
                   density |-> de, accel |-> ac, omega |-> om]
      /\ obstacles = mask
      /\ mem = [grid |-> StartGrid(dist, nx * ny, de), tmp_grid |-> Filled(nx * ny, junk)]
      /\ grid_ptr = "grid"
      /\ tmp_grid_ptr = "tmp_grid"
      /\ av_vels = [i \in 0 .. (mi - 1) |-> NoRet]
      /\ tt = 0
      /\ pc = "loop"
      /\ ret = NoRet
      /\ d_equ = [k \in 0 .. 8 |-> Zero]
      /\ streamed = Filled(nx * ny, junk)
      /\ hist = << StartGrid(dist, nx * ny, de) >>
      /\ log = << >>
      /\ out = NoOut
      /\ oob = FALSE
      /\ file = Listing(mask, nx, 0)
      /\ fp = << >>
      /\ null = {}
      /\ status = Returned
      /\ loop = NoLoop
      /\ twin = NoTwin

\* initialise, lines 866-965: grid holds the uniform equilibrium
Init == InitWith({"initialise"})

\* the kernel on an arbitrary distribution in grid as well
KernelInit == InitWith({"initialise", "tagged"})

\* timestep line 230, every index of accelerate_flow in range
AccelerateFlow ==
  /\ pc = "loop"
  /\ LoopCond
  /\ AccelInRange
  /\ mem' = [mem EXCEPT ![grid_ptr] = AccelBuf(cur)]
  /\ log' = Append(log, <<"accelerate_flow", tt>>)
  /\ pc' = "fusion"
  /\ UNCHANGED <<loop, twin, file, fp, null, status, params, obstacles, grid_ptr, tmp_grid_ptr, av_vels, tt, ret,
                 d_equ, streamed, hist, out, oob>>

\* timestep line 230 when ii + jj*nx falls outside the arrays (ny = 1): the
\* accesses of lines 251-263 are outside every array; the process is killed
\* by the fault or goes on with no cell of the arrays altered
AccelerateFlowOutOfRange ==
  /\ pc = "loop"
  /\ LoopCond
  /\ ~AccelInRange
  /\ oob' = TRUE
  /\ log' = Append(log, <<"accelerate_flow", tt>>)
  /\ pc' \in {"fault", "fusion"}
  /\ UNCHANGED <<loop, twin, file, fp, null, status, params, obstacles, mem, grid_ptr, tmp_grid_ptr, av_vels, tt,
                 ret, d_equ, streamed, hist, out>>

\* timestep line 231: the whole kernel
Fusion ==
  /\ pc = "fusion"
  /\ \E de \in DEquSet :
       /\ d_equ' = de
       /\ streamed' = Propagate(cur)
       /\ mem' = [mem EXCEPT ![tmp_grid_ptr] = Collide(streamed', de)]
       /\ ret' = FusionRet(mem'[tmp_grid_ptr])
  /\ log' = Append(log, <<"fusion", tt>>)
  /\ pc' = "store"
  /\ UNCHANGED <<loop, twin, file, fp, null, status, params, obstacles, grid_ptr, tmp_grid_ptr, av_vels, tt, hist,
                 out, oob>>

\* line 189: the store of timestep's value
StoreAv ==
  /\ pc = "store"
  /\ av_vels' = [av_vels EXCEPT ![tt] = ret]
  /\ log' = Append(log, <<"av_write", tt>>)
  /\ pc' = "swap"
  /\ UNCHANGED <<loop, twin, file, fp, null, status, params, obstacles, mem, grid_ptr, tmp_grid_ptr, tt, ret,
                 d_equ, streamed, hist, out, oob>>

\* lines 191-193 and the tt++ of line 186
Swap ==
  /\ pc = "swap"
  /\ grid_ptr' = tmp_grid_ptr
  /\ tmp_grid_ptr' = grid_ptr
  /\ tt' = tt + 1
  /\ hist' = LET h == Append(hist, mem[tmp_grid_ptr])
              IN  IF Len(h) > 3 THEN Tail(h) ELSE h
  /\ log' = Append(log, <<"swap", tt>>)
  /\ pc' = "loop"
  /\ UNCHANGED <<loop, twin, file, fp, null, status, params, obstacles, mem, av_vels, ret, d_equ, streamed, out,
                 oob>>

\* the address of the array grid, whatever the pointers name
ReportedPtr_Grid == "grid"

\* lines 217 and 222: the buffer argument of calc_reynolds and write_values
ReportedPtr == grid_ptr

\* line 217, reached when the loop condition fails
CalcReynolds ==
  /\ pc = "loop"
  /\ ~LoopCond
  /\ out' = [out EXCEPT !.reynolds = calc_reynolds(mem[ReportedPtr]),
                         !.reported = ReportedPtr]
  /\ pc' = "write_values"
  /\ UNCHANGED <<loop, twin, file, fp, null, status, params, obstacles, mem, grid_ptr, tmp_grid_ptr, av_vels, tt,
                 ret, d_equ, streamed, hist, log, oob>>

\* line 222
WriteValues ==
  /\ pc = "write_values"
  /\ \E junk \in {0, 1} :
       out' = [out EXCEPT !.final_state = FinalState(mem[ReportedPtr], junk),
                          !.av_file = [n \in 1 .. Len(AvLoop) |->
                                         <<AvLoop[n], av_vels[AvLoop[n]]>>]]
  /\ oob' = (oob \/ ~FlagInRange)
  /\ log' = log \o [n \in 1 .. Len(AvLoop) |-> <<"av_read", AvLoop[n]>>]
  /\ pc' = "done"
  /\ UNCHANGED <<loop, twin, file, fp, null, status, params, obstacles, mem, grid_ptr, tmp_grid_ptr, av_vels, tt,
                 ret, d_equ, streamed, hist>>

Next ==
  \/ AccelerateFlow
  \/ AccelerateFlowOutOfRange
  \/ Fusion
  \/ StoreAv
  \/ Swap
  \/ CalcReynolds
  \/ WriteValues

Spec == Init /\ [][Next]_vars
KernelSpec == KernelInit /\ [][Next]_vars

\* ---------------------------------------------- fusion, cell by cell
\* lines 571-579 for one cell: the nine values stored in cell c of tmp_grid,
\* read from grid g
CellPropagate_InPlace(g, c) ==
  [k \in Dirs |-> IF k = 1 THEN scratch[k][SrcIdx(k, Col(c), Row(c))]
                  ELSE g[k][SrcIdx(k, Col(c), Row(c))]]

CellPropagate(g, c) == [k \in Dirs |-> g[k][SrcIdx(k, Col(c), Row(c))]]

\* lines 584-747 for one cell: the nine values left in cell c of tmp_grid,
\* from the nine values t that lines 571-579 stored there
CellCollide(t, c, de) ==
  [k \in Dirs |-> IF obstacles[c] # 0 THEN t[Mirror(k)] ELSE Relax(t[k], de[k])]

\* buffer b with the nine values v in cell c
WithCell(b, c, v) == [k \in Dirs |-> [b[k] EXCEPT ![c] = v[k]]]

\* tot_u += x, the sum carried as the values added with their multiplicities
Accumulate(b, x) ==
  [v \in (DOMAIN b) \cup {x} |->
     (IF v \in DOMAIN b THEN b[v] ELSE 0) + (IF v = x THEN 1 ELSE 0)]

\* the cells a kernel step is run on, for every order of the cell loop
CellInit ==
  \E dist \in {"initialise", "tagged"}, nx \in 1 .. MaxNx, ny \in 1 .. MaxNy,
     rd \in ReynoldsDims, de \in Densities, om \in Omegas :
    \E mask \in Masks(nx * ny), junk \in GarbageFloats :
      /\ nx * ny <= MaxCells
      /\ params = [nx |-> nx, ny |-> ny, maxIters |-> 1, reynolds_dim |-> rd,
                   density |-> de, accel |-> Zero, omega |-> om]
      /\ obstacles = mask
      /\ mem = [grid |-> StartGrid(dist, nx * ny, de), tmp_grid |-> Filled(nx * ny, junk)]
      /\ grid_ptr = "grid"
      /\ tmp_grid_ptr = "tmp_grid"
      /\ av_vels = [i \in 0 .. 0 |-> NoRet]
      /\ tt = 0
      /\ pc = "fusion"
      /\ ret = NoRet
      /\ d_equ = [k \in 0 .. 8 |-> Zero]
      /\ streamed = Filled(nx * ny, junk)
      /\ hist = << StartGrid(dist, nx * ny, de) >>
      /\ log = << <<"accelerate_flow", 0>> >>
      /\ out = NoOut
      /\ oob = FALSE
      /\ file = Listing(mask, nx, 0)
      /\ fp = << >>
      /\ null = {}
      /\ status = Returned
      /\ twin = NoTwin
      /\ loop = NoLoop

\* lines 484-545: fusion is entered, tot_cells = 0 and tot_u = 0.f
FusionEnter ==
  /\ pc = "fusion"
  /\ d_equ' \in DEquSet
  /\ loop' = [todo |-> Cells, tot_cells |-> 0, tot_u |-> << >>, entry |-> scratch]
  /\ pc' = "fusion_loop"
  /\ UNCHANGED <<twin, file, fp, null, status, params, obstacles, mem, grid_ptr,
                 tmp_grid_ptr, av_vels, tt, ret, streamed, hist, log, out, oob>>

\* lines 558-776: the body of the loop for one cell, any cell not yet visited
FusionCell ==
  /\ pc = "fusion_loop"
  /\ \E c \in loop.todo :
       LET t == CellPropagate(cur, c)
           v == CellCollide(t, c, d_equ)
       IN  /\ streamed' = WithCell(streamed, c, t)
           /\ mem' = [mem EXCEPT ![tmp_grid_ptr] = WithCell(scratch, c, v)]
           /\ loop' = IF obstacles[c] # 0
                      THEN [loop EXCEPT !.todo = @ \ {c}]
                      ELSE [loop EXCEPT !.todo = @ \ {c},
                                        !.tot_cells = @ + 1,
                                        !.tot_u = Accumulate(@, FusionCellU(mem'[tmp_grid_ptr], c))]
  /\ UNCHANGED <<twin, file, fp, null, status, params, obstacles, grid_ptr,
                 tmp_grid_ptr, av_vels, tt, pc, ret, d_equ, hist, log, out, oob>>

\* lines 554-556 and 783: every cell has been visited, fusion returns
FusionReturn ==
  /\ pc = "fusion_loop"
  /\ loop.todo = {}
  /\ ret' = [tot_u |-> loop.tot_u, tot_cells |-> loop.tot_cells]
  /\ log' = Append(log, <<"fusion", tt>>)
  /\ pc' = "store"
  /\ UNCHANGED <<twin, loop, file, fp, null, status, params, obstacles, mem,
                 grid_ptr, tmp_grid_ptr, av_vels, tt, d_equ, streamed, hist, out, oob>>

CellNext == FusionEnter \/ FusionCell \/ FusionReturn

CellSpec == CellInit /\ [][CellNext]_vars

\* ------------------------------------------------------------- two runs
\* cell c moved s columns to the left, periodically; the mask and the
\* distribution whose cell (i,j) is cell ((i - s) mod nx, j) of the given one
ShiftIdx(c, s) == ((Col(c) - s + params.nx) % params.nx) + Row(c) * params.nx
ShiftMask(o, s) == [c \in Cells |-> o[ShiftIdx(c, s)]]
ShiftGrid(g, s) == [k \in Dirs |-> [c \in Cells |-> g[k][ShiftIdx(c, s)]]]

\* the program is run a second time with the same parameter file and the
\* obstacle file of the mask shifted by s columns: the first run is kept in
\* twin and main is where InitWith puts it (lines 179-186)
Restart ==
  /\ pc = "done"
  /\ twin.run = 1
  /\ \E s \in 0 .. (params.nx - 1), junk \in GarbageFloats :
       /\ twin' = [run |-> 2, s |-> s, hist |-> hist, av_vels |-> av_vels]
       /\ obstacles' = ShiftMask(obstacles, s)
       /\ file' = Listing(obstacles', params.nx, 0)
       /\ mem' = [grid |-> Uniform(N, params.density), tmp_grid |-> Filled(N, junk)]
       /\ streamed' = Filled(N, junk)
  /\ grid_ptr' = "grid"
  /\ tmp_grid_ptr' = "tmp_grid"
  /\ av_vels' = [i \in 0 .. (params.maxIters - 1) |-> NoRet]
  /\ tt' = 0
  /\ pc' = "loop"
  /\ ret' = NoRet
  /\ d_equ' = [k \in 0 .. 8 |-> Zero]
  /\ hist' = << Uniform(N, params.density) >>
  /\ log' = << >>
  /\ out' = NoOut
  /\ oob' = FALSE
  /\ UNCHANGED <<loop, params, fp, null, status>>

ShiftNext == Next \/ Restart

ShiftSpec == Init /\ [][ShiftNext]_vars

\* ------------------------------------------------------------- collision
\* lines 331-334
WeightOf(k) == IF k = 0 THEN <<4, 9>> ELSE IF k <= 4 THEN <<1, 9>> ELSE <<1, 36>>

\* lines 376-384: u[k]; u[0] is not used
DirU(k, u_x, u_y) ==
  CASE k = 0 -> Zero
    [] k = 1 -> u_x
    [] k = 2 -> u_y
    [] k = 3 -> RNeg(u_x)
    [] k = 4 -> RNeg(u_y)
    [] k = 5 -> RAdd(u_x, u_y)
    [] k = 6 -> RAdd(RNeg(u_x), u_y)
    [] k = 7 -> RSub(RNeg(u_x), u_y)
    [] k = 8 -> RSub(u_x, u_y)

\* lines 386-416: d_equ[k] of collision, with c_sq = 1/3
CollisionDEqu(k, local_density, u_x, u_y) ==
  LET c_sq == <<1, 3>>
      u_sq == RAdd(RMul(u_x, u_x), RMul(u_y, u_y))
      uk == DirU(k, u_x, u_y)
      two == R(2)
  IN  RMul(RMul(WeightOf(k), local_density),
           RSub(RAdd(RAdd(R(1), RDiv(uk, c_sq)),
                     RDiv(RMul(uk, uk), RMul(two, RMul(c_sq, c_sq)))),
                RDiv(u_sq, RMul(two, c_sq))))

\* lines 997-1013
total_density(g) ==
  LET RECURSIVE Acc(_)
      Acc(c) == IF c >= N THEN Zero ELSE RAdd(Sum9(g, c), Acc(c + 1))
  IN  Acc(0)

\* ------------------------------------------------------------ initialise
\* The obstacle files tried: up to MaxLines lines, each a line 'x y 1' of a
\* cell or a malformed one (coordinate out of range, blocked = 0, fewer than
\* three values).
ObstacleLines ==
  { <<x, y, 1>> : x \in -1 .. 1, y \in -1 .. 1 }
    \cup { <<0, 0, 0>>, <<0, 0>>, <<1>>, <<0>> }

RECURSIVE FilesOfLen(_)
FilesOfLen(n) ==
  IF n = 0 THEN { << >> }
  ELSE { Append(f, l) : f \in FilesOfLen(n - 1), l \in ObstacleLines }

ObstacleFiles == UNION { FilesOfLen(n) : n \in 0 .. MaxLines }

\* what fscanf's conversions see of a file: %d skips white space, line ends
\* included, so the values follow each other whatever line they are on
RECURSIVE Values(_)
Values(f) == IF f = << >> THEN << >> ELSE Head(f) \o Values(Tail(f))

\* line 941: fscanf(fp, "%d %d %d\n", &xx, &yy, &blocked) on the unread
\* values s: its return value, the values converted and what is left unread
EOF == -1
fscanf(s) ==
  IF s = << >> THEN [retval |-> EOF, xx |-> 0, yy |-> 0, blocked |-> 0, rest |-> s]
  ELSE IF Len(s) >= 3
  THEN [retval |-> 3, xx |-> s[1], yy |-> s[2], blocked |-> s[3],
        rest |-> SubSeq(s, 4, Len(s))]
  ELSE [retval |-> Len(s), xx |-> s[1], yy |-> 0, blocked |-> 0, rest |-> << >>]

\* the arrays of lines 866-885 (s0 .. s8 of grid and of tmp_grid), the mask
\* and av_vels; the allocations of lines 866-885 made to fail are the first
\* and the last of each buffer
GridArrays == { <<b, k>> : b \in {"grid", "tmp_grid"}, k \in Dirs }
FailableArrays == { a \in GridArrays : a[2] \in {0, NSPEEDS - 1} }
ObstaclesArray == <<"obstacles", 0>>
AvVelsArray == <<"av_vels", 0>>

\* the sets of at most k allocations among S that may fail
RECURSIVE Failing(_, _)
Failing(S, k) ==
  IF k = 0 THEN { {} }
  ELSE LET P == Failing(S, k - 1) IN P \cup { p \cup {a} : p \in P, a \in S }

\* main before line 179 calls initialise, the parameter file read (lines
\* 806-844); no array is allocated yet
InitialiseInit ==
  \E nx \in 1 .. MaxNx, ny \in 1 .. MaxNy, mi \in 0 .. MaxIters,
     rd \in ReynoldsDims, de \in Densities, om \in Omegas :
    /\ params = [nx |-> nx, ny |-> ny, maxIters |-> mi, reynolds_dim |-> rd,
                 density |-> de, accel |-> Zero, omega |-> om]
    /\ file = << >>
    /\ fp = << >>
    /\ null = {}
    /\ status = Running
    /\ obstacles = << >>
    /\ mem = [grid |-> << >>, tmp_grid |-> << >>]
    /\ grid_ptr = "grid"
    /\ tmp_grid_ptr = "tmp_grid"
    /\ av_vels = << >>
    /\ tt = 0
    /\ pc = "initialise"
    /\ ret = NoRet
    /\ d_equ = [k \in 0 .. 8 |-> Zero]
    /\ streamed = << >>
    /\ hist = << >>
    /\ log = << >>
    /\ out = NoOut
    /\ oob = FALSE
    /\ loop = NoLoop
    /\ twin = NoTwin

\* lines 866-885: eighteen _mm_malloc calls, none of them tested; the memory
\* obtained holds anything
AllocGrids ==
  /\ pc = "initialise"
  /\ \E failed \in Failing(FailableArrays, MaxFailures), junk \in GarbageFloats :
       /\ null' = failed
       /\ mem' = [grid |-> Filled(N, junk), tmp_grid |-> Filled(N, junk)]
  /\ pc' = "init_grid"
  /\ UNCHANGED <<loop, twin, file, fp, status, params, obstacles, grid_ptr, tmp_grid_ptr,
                 av_vels, tt, ret, d_equ, streamed, hist, log, out, oob>>

\* lines 887-909: the stores into the nine arrays of grid only; a store
\* through a null pointer kills the process or goes unnoticed
InitGrid ==
  /\ pc = "init_grid"
  /\ mem' = [mem EXCEPT !.grid = Uniform(N, params.density)]
  /\ oob' = \E k \in Dirs : <<"grid", k>> \in null
  /\ pc' \in IF oob' THEN {"fault", "alloc_obstacles"} ELSE {"alloc_obstacles"}
  /\ UNCHANGED <<loop, twin, file, fp, null, status, params, obstacles, grid_ptr,
                 tmp_grid_ptr, av_vels, tt, ret, d_equ, streamed, hist, log, out>>

\* lines 913-929: malloc of the mask, the only allocation that is tested,
\* and the loop that zeroes it
AllocObstacles ==
  /\ pc = "alloc_obstacles"
  /\ \/ /\ Cardinality(null) < MaxFailures
        /\ null' = null \cup {ObstaclesArray}
        /\ status' = die("cannot allocate column memory for obstacles")
        /\ pc' = "exit"
        /\ UNCHANGED obstacles
     \/ /\ obstacles' = [c \in Cells |-> 0]
        /\ pc' = "open_obstacles"
        /\ UNCHANGED <<null, status>>
  /\ UNCHANGED <<loop, twin, file, fp, params, mem, grid_ptr, tmp_grid_ptr, av_vels, tt,
                 ret, d_equ, streamed, hist, log, out, oob>>

\* lines 932-938: fopen of the obstacle file; file is what it finds
OpenObstacles ==
  /\ pc = "open_obstacles"
  /\ \/ /\ status' = die("could not open input obstacles file")
        /\ pc' = "exit"
        /\ UNCHANGED <<file, fp>>
     \/ /\ file' \in ObstacleFiles
        /\ fp' = Values(file')
        /\ pc' = "read_obstacles"
        /\ UNCHANGED status
  /\ UNCHANGED <<loop, twin, null, params, obstacles, mem, grid_ptr, tmp_grid_ptr,
                 av_vels, tt, ret, d_equ, streamed, hist, log, out, oob>>

\* lines 941-954: one pass of the while loop, fscanf did not return EOF
ReadObstacle ==
  /\ pc = "read_obstacles"
  /\ LET r == fscanf(fp)
     IN  /\ r.retval # EOF
         /\ fp' = r.rest
         /\ IF r.retval # 3
            THEN /\ status' = die("expected 3 values per line in obstacle file")
                 /\ pc' = "exit"
                 /\ UNCHANGED obstacles
            ELSE IF r.xx < 0 \/ r.xx > params.nx - 1
            THEN /\ status' = die("obstacle x-coord out of range")
                 /\ pc' = "exit"
                 /\ UNCHANGED obstacles
            ELSE IF r.yy < 0 \/ r.yy > params.ny - 1
            THEN /\ status' = die("obstacle y-coord out of range")
                 /\ pc' = "exit"
                 /\ UNCHANGED obstacles
            ELSE IF r.blocked # 1
            THEN /\ status' = die("obstacle blocked value should be 1")
                 /\ pc' = "exit"
                 /\ UNCHANGED obstacles
            ELSE /\ obstacles' = [obstacles EXCEPT ![r.xx + r.yy * params.nx] = r.blocked]
                 /\ pc' = "read_obstacles"
                 /\ UNCHANGED status
  /\ UNCHANGED <<loop, twin, file, null, params, mem, grid_ptr, tmp_grid_ptr, av_vels, tt,
                 ret, d_equ, streamed, hist, log, out, oob>>

\* lines 941 and 957-965: fscanf returns EOF, the file is closed, av_vels is
\* allocated without a test and initialise returns
AllocAvVels ==
  /\ pc = "read_obstacles"
  /\ fscanf(fp).retval = EOF
  /\ \/ /\ Cardinality(null) < MaxFailures
        /\ null' = null \cup {AvVelsArray}
     \/ UNCHANGED null
  /\ av_vels' = [i \in 0 .. (params.maxIters - 1) |-> NoRet]
  /\ status' = Returned
  /\ pc' = "returned"
  /\ UNCHANGED <<loop, twin, file, fp, params, obstacles, mem, grid_ptr, tmp_grid_ptr, tt,
                 ret, d_equ, streamed, hist, log, out, oob>>

InitialiseNext ==
  \/ AllocGrids
  \/ InitGrid
  \/ AllocObstacles
  \/ OpenObstacles
  \/ ReadObstacle
  \/ AllocAvVels

InitialiseSpec == InitialiseInit /\ [][InitialiseNext]_vars

\* =================================================================== claims
AllPositive(g) == \A k \in Dirs, c \in Cells : RGt0(g[k][c])
NoObstacle == \A c \in Cells : obstacles[c] = 0
AllObstacle == \A c \in Cells : obstacles[c] # 0
AfterFusion == pc \in {"store", "swap"}
\* the current buffer at the head of this iteration, of the one before, and
\* of the one before that
Pre == hist[Len(hist)]
Pre1 == hist[Len(hist) - 1]
Pre2 == hist[Len(hist) - 2]

\* the periodic upwind neighbour of cell (i, j) for speed k, as the
\* specification writes it
UpwindIdx(k, i, j) ==
  LET nx == params.nx
      ny == params.ny
      yn == (j + 1) % ny
      ys == (j - 1 + ny) % ny
      xe == (i + 1) % nx
      xw == (i - 1 + nx) % nx
      xs == <<i, xw, i, xe, i, xw, xe, xe, xw>>
      yy == <<j, j, ys, j, yn, ys, ys, yn, yn>>
  IN  xs[k + 1] + yy[k + 1] * nx

\* the streamed values t_k of cell c, read from the current buffer
T(k, c) == cur[k][UpwindIdx(k, Col(c), Row(c))]

\* C1: after a kernel step, for every cell (i,j) and every speed k the
\* post-stream value is the current buffer's value of speed k at the periodic
\* upwind neighbour, and every index the kernel used is in [0, nx*ny).
Thm_C1_Streaming ==
  AfterFusion =>
    \A c \in Cells, k \in Dirs :
      /\ InRange(SrcIdx(k, Col(c), Row(c)))
      /\ SrcIdx(k, Col(c), Row(c)) = UpwindIdx(k, Col(c), Row(c))
      /\ streamed[k][c] = T(k, c)

\* a 3x3 kernel step on pairwise distinct entries: cell (0,0) pulled speed 5
\* from cell (2,2)
Wit_C1_Streaming ==
  /\ pc = "store" /\ tt = 0
  /\ params.nx = 3 /\ params.ny = 3
  /\ streamed[5][0] = R(78)
  /\ streamed[4][0] = R(32)

\* the bounce-back table g_k = t_m of the specification
BounceBack == <<0, 3, 4, 1, 2, 7, 8, 5, 6>>

\* C2: after a kernel step every obstacle cell of scratch holds the mirrored
\* streamed values (g0=t0, g1=t3, g2=t4, g3=t1, g4=t2, g5=t7, g6=t8, g7=t5,
\* g8=t6); its sum is the sum of the streamed values.
Thm_C2_BounceBack ==
  AfterFusion =>
    \A c \in Cells :
      obstacles[c] # 0 =>
        /\ \A k \in Dirs : scratch[k][c] = T(BounceBack[k + 1], c)
        /\ Sum9(scratch, c) = Sum9(streamed, c)

Wit_C2_BounceBack ==
  /\ pc = "store"
  /\ \E c \in Cells :
       /\ obstacles[c] # 0
       /\ scratch[1][c] # scratch[3][c]
       /\ scratch[5][c] # scratch[6][c]
       /\ scratch[1][c] = streamed[3][c]

\* the relaxed value of speed k of fluid cell c with the full equilibrium
FullBGK(k, c) ==
  LET rho == RAdd(T(0, c), RAdd(T(1, c), RAdd(T(2, c), RAdd(T(3, c), RAdd(T(4, c),
             RAdd(T(5, c), RAdd(T(6, c), RAdd(T(7, c), T(8, c)))))))))
      u_x == RDiv(RSub(RAdd(T(1, c), RAdd(T(5, c), T(8, c))),
                       RAdd(T(3, c), RAdd(T(6, c), T(7, c)))), rho)
      u_y == RDiv(RSub(RAdd(T(2, c), RAdd(T(5, c), T(6, c))),
                       RAdd(T(4, c), RAdd(T(7, c), T(8, c)))), rho)
      feq == CollisionDEqu(k, rho, u_x, u_y)
  IN  RAdd(T(k, c), RMul(params.omega, RSub(feq, T(k, c))))

\* C3: after a kernel step every fluid cell of scratch holds, for each speed
\* k, t_k + omega*(f_k^eq - t_k) with the full equilibrium of the cell's own
\* streamed density and velocity.
Cex_C3_FullEquilibrium ==
  AfterFusion =>
    \A c \in Cells :
      obstacles[c] = 0 => \A k \in Dirs : scratch[k][c] = FullBGK(k, c)

\* C4: the total mass of the current buffer after a timestep equals the total
\* mass of the current buffer before it, whenever the densities before it
\* were positive.
Cex_C4_MassConserved ==
  (pc = "loop" /\ tt >= 1 /\ AllPositive(Pre1)) =>
    total_density(cur) = total_density(Pre1)

\* the speed (squared) of fluid cell c from its streamed values
StreamedU(c) ==
  LET rho == Sum9(streamed, c)
      u_x == RDiv(MomX(streamed, c), rho)
      u_y == RDiv(MomY(streamed, c), rho)
  IN  RAdd(RMul(u_x, u_x), RMul(u_y, u_y))

RECURSIVE StreamedTotU(_)
StreamedTotU(c) ==
  IF c >= N THEN << >>
  ELSE IF obstacles[c] # 0 THEN StreamedTotU(c + 1)
  ELSE << StreamedU(c) >> \o StreamedTotU(c + 1)

\* C5: the kernel returns tot_u / tot_cells with tot_cells the number of
\* non-obstacle cells and tot_u the sum over the fluid cells of the speed
\* sqrt(u_x^2 + u_y^2) of the cell's streamed values.
Cex_C5_Reduction ==
  AfterFusion =>
    /\ ret.tot_cells = Cardinality({c \in Cells : obstacles[c] = 0})
    /\ ret.tot_u = StreamedTotU(0)

\* the acceleration rule of the specification for cell c of buffer g
RuleW1 == RDiv(RMul(params.density, params.accel), R(9))
RuleW2 == RDiv(RMul(params.density, params.accel), R(36))
RuleApplies(g, c) ==
  /\ Row(c) = params.ny - 2
  /\ obstacles[c] = 0
  /\ RGt0(RSub(g[3][c], RuleW1))
  /\ RGt0(RSub(g[6][c], RuleW2))
  /\ RGt0(RSub(g[7][c], RuleW2))
RuleDelta == <<Zero, RuleW1, Zero, RNeg(RuleW1), Zero,
               RuleW2, RNeg(RuleW2), RNeg(RuleW2), RuleW2>>
AfterAccel == pc \in {"fusion", "fault"}

Thm_C8_Involution ==
  (pc = "loop" /\ tt >= 2 /\ AllObstacle /\ params.accel = Zero /\ params.ny >= 2) =>
    cur = Pre2

\* two steps on a 3x3 all-obstacle grid whose state after one step differs
Wit_C8_Involution ==
  /\ pc = "loop" /\ tt = 2
  /\ AllObstacle /\ params.accel = Zero
  /\ params.nx = 3 /\ params.ny = 3
  /\ hist[2] # hist[1]
  /\ cur = hist[1]

IsZeroAv(v) == v.tot_cells >= 1 /\ \A n \in 1 .. Len(v.tot_u) : v.tot_u[n] = Zero
Written == { log[n][2] : n \in { m \in 1 .. Len(log) : log[m][1] = "av_write" } }

\* C9: no obstacles, accel = 0, uniform equilibrium initially: at every step
\* the current buffer equals the initial one and every recorded average
\* velocity is 0.
Cex_C9_FixedPoint ==
  (NoObstacle /\ params.accel = Zero) =>
    /\ pc = "loop" => cur = Uniform(N, params.density)
    /\ \A i \in Written : IsZeroAv(av_vels[i])

Called(f) == { n \in 1 .. Len(log) : log[n][1] = f }

\* C10: with maxIters = 0 neither accelerate_flow nor fusion is called, the
\* reporter gets the initialised buffer with the uniform equilibrium in every
\* cell, no entry of av_vels is written or read, and the average-velocity
\* file gets no line.
Thm_C10_ZeroIters ==
  params.maxIters = 0 =>
    /\ Called("accelerate_flow") = {} /\ Called("fusion") = {}
    /\ Called("av_write") = {} /\ Called("av_read") = {}
    /\ pc \in {"write_values", "done"} =>
         /\ out.reported = "grid"
         /\ mem[out.reported] = Uniform(N, params.density)
         /\ out.reynolds.av = av_velocity(Uniform(N, params.density))
    /\ pc = "done" =>
         /\ out.av_file = << >>
         /\ Len(out.final_state) = N
         /\ \A n \in 1 .. N :
              obstacles[n - 1] = 0 =>
                /\ out.final_state[n].u = Zero
                /\ out.final_state[n].pressure = RDiv(params.density, R(3))

Wit_C10_ZeroIters ==
  /\ params.maxIters = 0
  /\ pc = "done"
  /\ Len(out.final_state) = N
  /\ ~AllObstacle

\* the buffer that was not passed to the reporter
Stale == IF out.reported = "grid" THEN "tmp_grid" ELSE "grid"

\* C11: for every maxIters the buffer passed to calc_reynolds and
\* write_values is the one fusion wrote last (the initial buffer when
\* maxIters = 0), never the stale scratch buffer; the Reynolds number is
\* av_velocity of that buffer times reynolds_dim over (1/6)(2/omega - 1),
\* computed without reading av_vels.
Thm_C11_ReporterInput ==
  pc \in {"write_values", "done"} =>
    /\ tt = params.maxIters
    /\ out.reported = grid_ptr
    /\ out.reported # tmp_grid_ptr
    /\ IF params.maxIters = 0
       THEN out.reported = "grid" /\ mem[out.reported] = hist[1]
       ELSE /\ log[Cardinality(Called("swap")) * 4 - 2] = <<"fusion", params.maxIters - 1>>
            /\ mem[out.reported] = Collide(streamed, d_equ)
            /\ mem[out.reported] = hist[Len(hist)]
    /\ out.reynolds.av = av_velocity(mem[out.reported])
    /\ out.reynolds.reynolds_dim = params.reynolds_dim
    /\ out.reynolds.viscosity =
         RMul(<<1, 6>>, RSub(RDiv(R(2), params.omega), R(1)))
    /\ pc = "write_values" => Called("av_read") = {}
    /\ pc = "done" =>
         \E junk \in {0, 1} : out.final_state = FinalState(mem[out.reported], junk)

\* a run of one iteration: the reporter got the array tmp_grid, whose
\* contents differ from those of the array grid
Wit_C11_ReporterInput ==
  /\ pc = "done"
  /\ params.maxIters = 1
  /\ out.reported = "tmp_grid"
  /\ mem[out.reported] # mem[Stale]
  /\ out.reynolds.av.tot_cells >= 1
  /\ out.reynolds.av # av_velocity(mem[Stale])

\* C12: on the line write_values prints for cell (i,j) the obstacle flag is
\* the mask value of that cell, obstacles[i + j*nx]: 1 exactly on the lines
\* that report u_x = u_y = |u| = 0 and pressure density*c_s^2 for an
\* obstacle, 0 exactly on the lines of fluid cells.
Cex_C12_FlagOfSameCell ==
  pc = "done" =>
    \A n \in 1 .. N :
      LET line == out.final_state[n]
      IN  line.flag = obstacles[line.ii + line.jj * params.nx]

\* the file has a line 'x y 1'; a line the specification rejects; the place
\* of the first such line (Len(file) + 1 if there is none)
Listed(x, y) == \E n \in 1 .. Len(file) : file[n] = <<x, y, 1>>
Malformed(l) ==
  \/ Len(l) < 3
  \/ l[1] < 0 \/ l[1] > params.nx - 1
  \/ l[2] < 0 \/ l[2] > params.ny - 1
  \/ l[3] # 1
FirstMalformed ==
  LET bad == { n \in 1 .. Len(file) : Malformed(file[n]) }
  IN  IF bad = {} THEN Len(file) + 1 ELSE CHOOSE n \in bad : \A m \in bad : n <= m

\* C13: when initialise returns, mask cell (x,y) is 1 exactly when the file
\* has at least one line 'x y 1', whatever the order of the lines and however
\* often a cell is listed, and every other cell is 0; a line with x or y out
\* of range, blocked != 1 or fewer than three values makes the process exit
\* non-zero, and its cell is not written into the mask.
Cex_C13_ObstacleFile ==
  /\ pc = "returned" =>
       /\ status.code = "EXIT_SUCCESS"
       /\ FirstMalformed = Len(file) + 1
       /\ \A c \in Cells :
            obstacles[c] = (IF Listed(Col(c), Row(c)) THEN 1 ELSE 0)
  /\ (pc = "exit" /\ fp # << >>) => status.code = "EXIT_FAILURE"
  /\ (pc \in {"read_obstacles", "exit", "returned"} /\ obstacles # << >>) =>
       \A c \in Cells :
         obstacles[c] # 0 =>
           \E n \in 1 .. (FirstMalformed - 1) : file[n] = <<Col(c), Row(c), 1>>

\* C14: if the allocation of one of the eighteen distribution arrays, of the
\* mask or of av_vels returns NULL, initialise emits a diagnostic and the
\* process exits non-zero before that buffer is written or read: nothing is
\* stored through a null pointer, initialise does not return with one, and
\* the exit is die's with a message.
Cex_C14_AllocFatal ==
  null # {} =>
    /\ ~oob
    /\ pc # "returned"
    /\ pc \notin {"fault", "open_obstacles", "read_obstacles"}
    /\ pc = "exit" => (status.code = "EXIT_FAILURE" /\ status.diag # "")

\* the values of a sequence with their numbers of occurrences
BagOf(q) ==
  [v \in { q[n] : n \in DOMAIN q } |-> Cardinality({ n \in DOMAIN q : q[n] = v })]
SameAv(a, b) == a.tot_cells = b.tot_cells /\ BagOf(a.tot_u) = BagOf(b.tot_u)
\* the loop-head buffer of the first run after k of its maxIters timesteps
TwinAt(k) == twin.hist[Len(twin.hist) - (params.maxIters - k)]

\* C15: two runs with the same parameters and uniform initial state whose
\* masks differ by a cyclic shift of s columns have, after every timestep,
\* distributions related by the same shift, f2_k(i,j) = f1_k((i-s) mod nx, j),
\* and equal recorded average velocities.
Cex_C15_ShiftEquivariance ==
  (twin.run = 2 /\ pc = "loop") =>
    /\ Len(twin.hist) - (params.maxIters - tt) >= 1 =>
         cur = ShiftGrid(TwinAt(tt), twin.s)
    /\ \A i \in 0 .. (tt - 1) : SameAv(av_vels[i], twin.av_vels[i])

\* the events of iteration i of the loop, in the order of the claim
Protocol(i) ==
  << <<"accelerate_flow", i>>, <<"fusion", i>>, <<"av_write", i>>, <<"swap", i>> >>
\* the n-th entry of log is the n-th event of the protocol, and the reads
\* of write_values come after the maxIters iterations
LogInOrder ==
  \A n \in 1 .. Len(log) :
    IF n <= 4 * params.maxIters
    THEN log[n] = Protocol((n - 1) \div 4)[((n - 1) % 4) + 1]
    ELSE log[n] = <<"av_read", n - 4 * params.maxIters - 1>>
WrittenOnce ==
  \A i \in 0 .. (params.maxIters - 1) :
    Cardinality({ n \in 1 .. Len(log) : log[n] = <<"av_write", i>> }) = 1
ProtocolSafe ==
  /\ LogInOrder
  /\ tt <= params.maxIters
  /\ pc = "swap" =>
       /\ scratch = Collide(Propagate(cur), d_equ)
       /\ ret = FusionRet(scratch)
       /\ av_vels[tt] = ret
  /\ pc \in {"write_values", "done"} =>
       /\ tt = params.maxIters
       /\ Cardinality(Called("swap")) = params.maxIters
       /\ WrittenOnce

\* C16: the loop performs exactly maxIters iterations and then terminates; in
\* iteration tt the events are, in this order, accelerate_flow on the current
\* buffer, fusion from current into scratch, the store of fusion's value in
\* av_vels[tt], the swap; every index of av_vels below maxIters is written
\* exactly once, and no swap comes before fusion has written every scratch
\* cell and returned.  As a property of the states: the events logged are a
\* prefix of that protocol, main is at one of its positions (it has not been
\* stopped inside an iteration), and the loop is left after maxIters swaps.
Cex_C16_DriverProtocol ==
  /\ ProtocolSafe
  /\ pc \in {"loop", "fusion", "store", "swap", "write_values", "done"}
  /\ (pc = "loop" /\ ~LoopCond) => Cardinality(Called("swap")) = params.maxIters

\* what the loop of fusion leaves in tmp_grid when it visits the cells in
\* row-major order
RowMajor == Collide(Propagate(cur), d_equ)
Visited == Cells \ loop.todo
\* the contributions to tot_u of the fluid cells visited, as the row-major
\* order computes them, with their multiplicities
Contributions ==
  LET fluid == { c \in Visited : obstacles[c] = 0 }
  IN  [v \in { FusionCellU(RowMajor, c) : c \in fluid } |->
         Cardinality({ c \in fluid : FusionCellU(RowMajor, c) = v })]

\* C17: within a kernel step the current buffer is never written; the
\* iteration for cell (i,j) writes only the nine scratch entries at i + j*nx
\* and reads no scratch entry of another cell; so for every order in which
\* the iterations are run, scratch, tot_cells and the multiset of the
\* contributions to tot_u end as in the row-major order.
Thm_C17_OrderIndependence ==
  pc \in {"fusion_loop", "store"} =>
    /\ cur = Pre
    /\ \A c \in Visited, k \in Dirs : scratch[k][c] = RowMajor[k][c]
    /\ \A c \in loop.todo, k \in Dirs : scratch[k][c] = loop.entry[k][c]
    /\ loop.tot_cells = Cardinality({ c \in Visited : obstacles[c] = 0 })
    /\ loop.tot_u = Contributions
    /\ pc = "store" =>
         /\ scratch = RowMajor
         /\ ret.tot_cells = FusionRet(RowMajor).tot_cells
         /\ ret.tot_u = BagOf(FusionRet(RowMajor).tot_u)

\* a 3x2 step on pairwise distinct entries in which the last cell was
\* visited before the first, and a fluid cell before an obstacle
Wit_C17_OrderIndependence ==
  /\ pc = "fusion_loop"
  /\ params.nx = 3 /\ params.ny = 2
  /\ loop.todo = {0, 4}
  /\ cur = Tagged(N)
  /\ obstacles[4] # 0
  /\ streamed[1][5] = cur[1][4]
  /\ loop.tot_cells = 4

\* C18: when initialise returns, every cell of both buffers holds the uniform
\* equilibrium f0 = 4*density/9, f1..f4 = density/9, f5..f8 = density/36, so
\* that no entry of either buffer is uninitialised before the first timestep.
Cex_C18_BothBuffers ==
  pc = "returned" =>
    \A b \in {"grid", "tmp_grid"}, c \in Cells, k \in Dirs :
      mem[b][k][c] = (IF k = 0 THEN RDiv(RMul(R(4), params.density), R(9))
                      ELSE IF k \in 1 .. 4 THEN RDiv(params.density, R(9))
                      ELSE RDiv(params.density, R(36)))

\* every fluid cell of g has a density other than zero
NonZeroDensities(g) ==
  \A c \in Cells : obstacles[c] = 0 => (Sum9(g, c)[2] # 0 /\ Sum9(g, c)[1] # 0)

\* C19: for every step tt the value stored in av_vels[tt], which fusion
\* returned, is av_velocity of the buffer that is current right after that
\* step's swap, for every mask and every input state with non-zero densities.
Thm_C19_FusedReduction ==
  /\ (pc = "loop" /\ tt >= 1 /\ NonZeroDensities(cur)) =>
       av_vels[tt - 1] = av_velocity(cur)
  /\ (pc = "store" /\ NonZeroDensities(scratch)) => ret = av_velocity(scratch)

\* after a swap, on a grid with an obstacle and fluid cells of non-zero and
\* pairwise different speeds
Wit_C19_FusedReduction ==
  /\ pc = "loop" /\ tt = 1
  /\ NonZeroDensities(cur)
  /\ ~NoObstacle
  /\ av_vels[0].tot_cells >= 2
  /\ av_vels[0].tot_u[1] # Zero
  /\ av_vels[0].tot_u[1] # av_vels[0].tot_u[2]
  /\ av_vels[0] = av_velocity(mem[grid_ptr])
  /\ grid_ptr = "tmp_grid"

\* C20: for every obstacle mask that initialise accepts, the mask with every
\* cell an obstacle included, the divisor tot_cells of the final division
\* tot_u / tot_cells of fusion and of av_velocity is at least 1.
Cex_C20_DivisorPositive ==
  /\ AfterFusion => ret.tot_cells >= 1
  /\ pc \in {"write_values", "done"} => out.reynolds.av.tot_cells >= 1

\* lines 246-263: the indices at which accelerate_flow reads obstacles and
\* reads or writes the arrays of grid
AccelIndices == { AccelIdx(ii) : ii \in 0 .. (params.nx - 1) }

\* C21: for every grid with nx >= 1 and ny >= 1, ny = 1 included, every index
\* ii + (ny-2)*nx that accelerate_flow has used to read the obstacle mask or
\* to read or write a distribution array lies in [0, nx*ny).
Cex_C21_AccelIndexSafe ==
  Called("accelerate_flow") # {} => \A i \in AccelIndices : InRange(i)

\* lines 1033-1076: the indices at which write_values reads obstacles, the
\* test of line 1038 and the printed flag of line 1076
WriteValuesIndices ==
  UNION { { Col(c) + Row(c) * params.nx, FlagIdx(Col(c), Row(c)) } : c \in Cells }

\* C22: for every grid with nx >= 1 and ny >= 1, those with nx > ny included,
\* every index write_values has used to read the obstacle mask, the index
\* ii*nx + jj of the printed flag included, lies in [0, nx*ny).
Cex_C22_WriteValuesIndexSafe ==
  pc = "done" => \A i \in WriteValuesIndices : InRange(i)

====
